---- MODULE Spec2Model ----
(***************************************************************************)
(* Model of panphon/_panphon.py: the segmenter (SEG_REGEX, segment_text)   *)
(* and the FeatureTable class (construction, delete_ties, lookups,         *)
(* matching, intersection, rendering, sonority).                           *)
(*                                                                         *)
(* Characters are Unicode code points (integers); a segment or a text is   *)
(* a sequence of code points.  A feature is a pair <<value, name>>, a      *)
(* feature set is a set of such pairs.  A Python value is a record         *)
(* [t |-> type tag, v |-> payload]; an operation's outcome is a record     *)
(* [ret |-> Python value, exc |-> name of the exception raised or "none"]. *)
(***************************************************************************)
EXTENDS Integers, Sequences, FiniteSets

VARIABLES
    built,      \* TRUE once FeatureTable.__init__ has returned an instance
    seg_dict,   \* self.seg_dict : segment -> feature set
    names,      \* self.names    : ordered feature names (header[1:])
    nties,      \* number of delete_ties calls made on the instance (saturating)
    op,         \* name of the last operation called
    arg,        \* its arguments
    ret,        \* the Python value it returned
    exc,        \* the exception it raised, "none" if it returned
    text,       \* segment_text: the text being segmented
    pos,        \* segment_text: position where finditer resumes scanning
    segs,       \* segment_text: the segments yielded so far (m.group(0))
    spans,      \* segment_text: <<m.start()+1, m.end()>> of each match
    done        \* segment_text: the generator is exhausted

vars == <<built, seg_dict, names, nties, op, arg, ret, exc,
          text, pos, segs, spans, done>>

tableVars == <<built, seg_dict, names, nties>>
callVars  == <<op, arg, ret, exc>>
segVars   == <<text, pos, segs, spans, done>>

(***************************************************************************)
(* Bounds                                                                  *)
(***************************************************************************)
MaxLen == 3       \* longest text given to segment_text
MaxRows == 2      \* most data rows in the table source
MaxInv == 2       \* longest inventory / segment collection
MaxFts == 2       \* most features in a set given to fts_to_str
MaxTieCalls == 2  \* delete_ties calls counted before the counter saturates

(***************************************************************************)
(* Python values                                                           *)
(***************************************************************************)
PyNone == [t |-> "None", v |-> 0]
PyBool(b) == [t |-> "bool", v |-> b]
PySet(s) == [t |-> "set", v |-> s]
PyInt(i) == [t |-> "int", v |-> i]
PyStr(s) == [t |-> "str", v |-> s]

Returned(r) == [ret |-> r, exc |-> "none"]
Raised(e) == [ret |-> PyNone, exc |-> e]

\* truth value of a Python object (None is false)
Truthy(r) ==
    IF r.t = "bool" THEN r.v
    ELSE IF r.t = "None" THEN FALSE
    ELSE IF r.t = "int" THEN r.v # 0
    ELSE IF r.t = "set" THEN r.v # {}
    ELSE r.v # <<>>

py_any(l) == \E i \in 1..Len(l) : Truthy(l[i])
py_all(l) == \A i \in 1..Len(l) : Truthy(l[i])

Range(s) == {s[i] : i \in 1..Len(s)}

RECURSIVE SeqsUpTo(_, _)
SeqsUpTo(S, n) ==
    IF n = 0 THEN {<<>>}
    ELSE LET shorter == SeqsUpTo(S, n - 1)
         IN  shorter \cup {Append(q, x) : q \in shorter, x \in S}

(***************************************************************************)
(* Characters and SEG_REGEX                                                *)
(***************************************************************************)
TIE == 865                      \* U+0361 COMBINING DOUBLE INVERTED BREVE

\* the base class: Basic Latin, Greek and Coptic, IPA Extensions, U+0153, U+00C0-U+00FF
IsBase(c) ==
    \/ c \in 0..127
    \/ c \in 880..1023
    \/ c \in 592..687
    \/ c = 339
    \/ c \in 192..255

\* the combining-mark class, U+0300-U+0360 and U+0362-U+036F: U+0361, the tie bar, is left out
IsMark(c) == c \in 768..864 \/ c \in 866..879

\* \p{InSpacing_Modifier_Letters}
IsModifier(c) == c \in 688..767

\* the characters texts are drawn from: p, a, U+02B0 (modifier letter small
\* h), U+0303 (combining tilde), the tie bar, and U+2016 (outside every class)
Alphabet == {112, 97, 688, 771, TIE, 8214}

Texts == SeqsUpTo(Alphabet, MaxLen)

(***************************************************************************)
(* segment_text: SEG_REGEX.finditer(text), one match per next() call       *)
(***************************************************************************)
RECURSIVE SkipWhile(_, _, _)
\* last index of the longest run, starting after index j, of characters of
\* class "mark" or "modifier" (a greedy, possessive star: the classes of the
\* pattern are pairwise disjoint, so the star never gives a character back)
SkipWhile(t, j, cls) ==
    IF j + 1 <= Len(t)
       /\ (IF cls = "mark" THEN IsMark(t[j + 1]) ELSE IsModifier(t[j + 1]))
    THEN SkipWhile(t, j + 1, cls)
    ELSE j

MatchEnd_NoModifiers(t, i) == SkipWhile(t, i, "mark")

\* index of the last character of the match of SEG_REGEX that starts at i
MatchEnd(t, i) == SkipWhile(t, SkipWhile(t, i, "mark"), "modifier")

\* indices >= p at which a match of SEG_REGEX can start
MatchStarts(t, p) == {i \in p..Len(t) : IsBase(t[i])}

Min(S) == CHOOSE x \in S : \A y \in S : x <= y
Max(S) == CHOOSE x \in S : \A y \in S : x >= y

\* segment_text(text): the generator object is created, nothing is scanned yet
Call_segment_text ==
    /\ \E t \in Texts : text' = t
    /\ pos' = 1
    /\ segs' = <<>>
    /\ spans' = <<>>
    /\ done' = FALSE
    /\ UNCHANGED <<tableVars, callVars>>

\* next() on the generator: finditer finds the leftmost match at or after
\* pos and the body yields m.group(0)
SegYield ==
    /\ ~done
    /\ MatchStarts(text, pos) # {}
    /\ LET i == Min(MatchStarts(text, pos))
           e == MatchEnd(text, i)
       IN  /\ segs' = Append(segs, SubSeq(text, i, e))
           /\ spans' = Append(spans, <<i, e>>)
           /\ pos' = e + 1
    /\ UNCHANGED <<text, done, tableVars, callVars>>

\* next() on the generator when no further match exists: StopIteration
SegStop ==
    /\ ~done
    /\ MatchStarts(text, pos) = {}
    /\ done' = TRUE
    /\ pos' = Len(text) + 1
    /\ UNCHANGED <<text, segs, spans, tableVars, callVars>>

(***************************************************************************)
(* Features, feature sets and the table source                             *)
(***************************************************************************)
\* the feature names sonority_from_fts tests, in header order
SpeNames == <<"cons", "son", "cont", "voi", "lo", "hi", "nas">>

Values == {"+", "-", "0"}

\* every feature set over SpeNames with at most one value per name
FeatureSets ==
    LET N == Range(SpeNames)
    IN  {{<<f[n], n>> : n \in {m \in N : f[m] # "absent"}} :
            f \in [N -> Values \cup {"absent"}]}

\* segments: p, a, ts, and t + tie + tie + s
KeyPool == {<<112>>, <<97>>, <<116, 115>>, <<116, TIE, TIE, 115>>}

\* segments callers ask about: the possible keys and x, never a key
SegPool == KeyPool \cup {<<120>>}

PRow == {<<"-", "cons">>, <<"-", "son">>, <<"-", "cont">>, <<"-", "voi">>}
ARow == {<<"-", "cons">>, <<"+", "lo">>}
NRow == {<<"+", "cons">>, <<"+", "son">>, <<"+", "nas">>, <<"+", "voi">>,
         <<"0", "lo">>}

RowPool == {PRow, ARow, NRow}

\* the data rows a table source can hold: (seg, specs) pairs
RowSeqs == SeqsUpTo(KeyPool \X RowPool, MaxRows)

MaskPool == {{}, {<<"+", "lo">>}, {<<"-", "cons">>},
             {<<"+", "voi">>, <<"+", "son">>}}

Inventories == SeqsUpTo(SegPool, MaxInv)

\* feature sets handed to fts_to_str
SmallFeatureSets == {fs \in FeatureSets : Cardinality(fs) <= MaxFts}

filenames ==
    [v \in {"spe+", "panphon", "phoible"} |->
        IF v = "phoible" THEN "data/segment_features_phoible.csv"
        ELSE "data/segment_features.csv"]

Variants == {"spe+", "panphon", "phoible", "spe"}

\* dict(self.segments): for a key given by several rows the last row wins
dict(rows) ==
    [k \in {rows[i][1] : i \in 1..Len(rows)} |->
        rows[Max({i \in 1..Len(rows) : rows[i][1] = k})][2]]

(***************************************************************************)
(* FeatureTable methods, as functions of self.seg_dict / self.names        *)
(***************************************************************************)
\* k.replace(TIE, u'')
replace_tie(k) == SelectSeq(k, LAMBDA c : c # TIE)

RECURSIVE replace_first_tie(_)
replace_first_tie(k) ==
    IF k = <<>> THEN <<>>
    ELSE IF Head(k) = TIE THEN Tail(k)
    ELSE <<Head(k)>> \o replace_first_tie(Tail(k))

delete_ties_first_only(sd) ==
    LET newKeys == {replace_first_tie(k) : k \in DOMAIN sd}
    IN  {f \in [newKeys -> {sd[k] : k \in DOMAIN sd}] :
            \A n \in newKeys :
                \E k \in DOMAIN sd : replace_first_tie(k) = n /\ f[n] = sd[k]}

\* the dictionaries the comprehension of delete_ties can build: when several
\* keys become equal the one iterated last wins, and items() fixes no order
delete_ties(sd) ==
    LET newKeys == {replace_tie(k) : k \in DOMAIN sd}
    IN  {f \in [newKeys -> {sd[k] : k \in DOMAIN sd}] :
            \A n \in newKeys :
                \E k \in DOMAIN sd : replace_tie(k) = n /\ f[n] = sd[k]}

fts_returns_none(sd, segment) ==
    IF segment \in DOMAIN sd THEN Returned(PySet(sd[segment]))
    ELSE Returned(PyNone)

fts(sd, segment) ==
    IF segment \in DOMAIN sd THEN Returned(PySet(sd[segment]))
    ELSE Raised("SegmentError")

match(ft_mask, ft_seg) == ft_mask \subseteq ft_seg

fts_match(sd, features, segment) ==
    IF segment \in DOMAIN sd THEN Returned(PyBool(features \subseteq sd[segment]))
    ELSE Returned(PyNone)

seg_known(sd, segment) == Returned(PyBool(segment \in DOMAIN sd))

seg_fts(sd, segment) ==
    IF segment \in DOMAIN sd THEN Returned(PySet(sd[segment]))
    ELSE Returned(PyNone)

RECURSIVE intersect_all(_, _, _)
\* the loop "for seg in segments: fts = fts & self.seg_dict[seg]"
intersect_all(sd, acc, rest) ==
    IF rest = {} THEN acc
    ELSE LET seg == CHOOSE x \in rest : TRUE
         IN  intersect_all(sd, acc \cap sd[seg], rest \ {seg})

RECURSIVE unite_all(_, _, _)
unite_all(sd, acc, rest) ==
    IF rest = {} THEN acc
    ELSE LET seg == CHOOSE x \in rest : TRUE
         IN  unite_all(sd, acc \cup sd[seg], rest \ {seg})

fts_intersection_union(sd, segments) ==
    LET known == {seg \in Range(segments) : seg \in DOMAIN sd}
    IN  IF known = {} THEN {Raised("KeyError")}
        ELSE {Returned(PySet(unite_all(sd, sd[seg1], known \ {seg1}))) :
                seg1 \in known}

\* the outcomes of fts_intersection: set.pop() removes an arbitrary element
\* and raises KeyError on an empty set
fts_intersection(sd, segments) ==
    LET known == {seg \in Range(segments) : seg \in DOMAIN sd}
    IN  IF known = {} THEN {Raised("KeyError")}
        ELSE {Returned(PySet(intersect_all(sd, sd[seg1], known \ {seg1}))) :
                seg1 \in known}

fts_match_any(sd, mask, inv) ==
    Returned(PyBool(py_any([i \in 1..Len(inv) |-> fts_match(sd, mask, inv[i]).ret])))

fts_match_all_copy_of_any(sd, mask, inv) ==
    Returned(PyBool(py_any([i \in 1..Len(inv) |-> fts_match(sd, mask, inv[i]).ret])))

fts_match_all(sd, mask, inv) ==
    Returned(PyBool(py_all([i \in 1..Len(inv) |-> fts_match(sd, mask, inv[i]).ret])))

\* vals = {u'0': ' ', u'-': '0', u'+': '1'}
vals(v) == IF v = "0" THEN " " ELSE IF v = "-" THEN "0" ELSE "1"

RECURSIVE to_str(_, _, _)
\* the loop over self.names; seg_dict = {n: v for (v, n) in seg} keeps one
\* value per name
to_str(nms, seg, i) ==
    IF i > Len(nms) THEN <<>>
    ELSE LET present == {f \in seg : f[2] = nms[i]}
         IN  (IF present = {} THEN <<>>
              ELSE <<vals((CHOOSE f \in present : TRUE)[1])>>)
             \o to_str(nms, seg, i + 1)

RECURSIVE to_str_fixed_width(_, _, _)
to_str_fixed_width(nms, seg, i) ==
    IF i > Len(nms) THEN <<>>
    ELSE LET present == {f \in seg : f[2] = nms[i]}
         IN  (IF present = {} THEN <<" ">>
              ELSE <<vals((CHOOSE f \in present : TRUE)[1])>>)
             \o to_str_fixed_width(nms, seg, i + 1)

fts_to_str_fixed_width(nms, seg) == Returned(PyStr(to_str_fixed_width(nms, seg, 1)))

fts_to_str(nms, seg) == Returned(PyStr(to_str(nms, seg, 1)))

sonority_from_fts_hi_first(seg) ==
    IF match({<<"-", "cons">>}, seg)
    THEN IF match({<<"-", "hi">>}, seg) THEN 8
         ELSE IF match({<<"+", "lo">>}, seg) THEN 9
         ELSE 7
    ELSE IF match({<<"+", "son">>}, seg)
         THEN IF match({<<"-", "nas">>}, seg) THEN 6 ELSE 5
         ELSE IF match({<<"+", "cont">>}, seg)
              THEN IF match({<<"+", "voi">>}, seg) THEN 4 ELSE 3
              ELSE IF match({<<"+", "voi">>}, seg) THEN 2 ELSE 1

sonority_from_fts(seg) ==
    IF match({<<"-", "cons">>}, seg)
    THEN IF match({<<"+", "lo">>}, seg) THEN 9
         ELSE IF match({<<"-", "hi">>}, seg) THEN 8
         ELSE 7
    ELSE IF match({<<"+", "son">>}, seg)
         THEN IF match({<<"-", "nas">>}, seg) THEN 6 ELSE 5
         ELSE IF match({<<"+", "cont">>}, seg)
              THEN IF match({<<"+", "voi">>}, seg) THEN 4 ELSE 3
              ELSE IF match({<<"+", "voi">>}, seg) THEN 2 ELSE 1

\* the segment string itself is handed to sonority_from_fts: set(seg) is then
\* a set of characters and contains no feature
sonority_of_string(sd, seg) ==
    IF fts(sd, seg).exc # "none" THEN fts(sd, seg)
    ELSE Returned(PyInt(sonority_from_fts({})))

sonority(sd, seg) ==
    IF fts(sd, seg).exc # "none" THEN fts(sd, seg)
    ELSE Returned(PyInt(sonority_from_fts(fts(sd, seg).ret.v)))

(***************************************************************************)
(* Operations on a FeatureTable instance                                   *)
(***************************************************************************)
Init ==
    /\ built = FALSE
    /\ seg_dict = dict(<<>>)
    /\ names = <<>>
    /\ nties = 0
    /\ op = "none"
    /\ arg = <<>>
    /\ ret = PyNone
    /\ exc = "none"
    /\ text = <<>>
    /\ pos = 1
    /\ segs = <<>>
    /\ spans = <<>>
    /\ done = TRUE

Record(name, a, outcome) ==
    /\ op' = name
    /\ arg' = a
    /\ ret' = outcome.ret
    /\ exc' = outcome.exc

\* FeatureTable(feature_set): filenames[feature_set] raises KeyError for an
\* unlisted identifier, before anything is read; otherwise _read_table builds
\* seg_dict and names from the rows of the file
Call_init ==
    /\ ~built
    /\ op = "none"
    /\ \E feature_set \in Variants :
          IF feature_set \in DOMAIN filenames
          THEN /\ \E rows \in RowSeqs : seg_dict' = dict(rows)
               /\ names' = SpeNames
               /\ built' = TRUE
               /\ nties' = 0
               /\ Record("__init__", feature_set, Returned(PyNone))
          ELSE /\ Record("__init__", feature_set, Raised("KeyError"))
               /\ UNCHANGED tableVars
    /\ UNCHANGED segVars

Call_delete_ties ==
    /\ built
    /\ op = "none"
    /\ \E d \in delete_ties(seg_dict) : seg_dict' = d
    /\ nties' = IF nties < MaxTieCalls THEN nties + 1 ELSE nties
    /\ Record("delete_ties", <<>>, Returned(PyNone))
    /\ UNCHANGED <<built, names, segVars>>

Call_fts ==
    /\ built
    /\ op = "none"
    /\ \E s \in SegPool : Record("fts", s, fts(seg_dict, s))
    /\ UNCHANGED <<tableVars, segVars>>

Call_seg_known ==
    /\ built
    /\ op = "none"
    /\ \E s \in SegPool : Record("seg_known", s, seg_known(seg_dict, s))
    /\ UNCHANGED <<tableVars, segVars>>

Call_seg_fts ==
    /\ built
    /\ op = "none"
    /\ \E s \in SegPool : Record("seg_fts", s, seg_fts(seg_dict, s))
    /\ UNCHANGED <<tableVars, segVars>>

Call_fts_match ==
    /\ built
    /\ op = "none"
    /\ \E mask \in MaskPool, s \in SegPool :
          Record("fts_match", <<mask, s>>, fts_match(seg_dict, mask, s))
    /\ UNCHANGED <<tableVars, segVars>>

Call_fts_match_any ==
    /\ built
    /\ op = "none"
    /\ \E mask \in MaskPool, inv \in Inventories :
          Record("fts_match_any", <<mask, inv>>, fts_match_any(seg_dict, mask, inv))
    /\ UNCHANGED <<tableVars, segVars>>

Call_fts_match_all ==
    /\ built
    /\ op = "none"
    /\ \E mask \in MaskPool, inv \in Inventories :
          Record("fts_match_all", <<mask, inv>>, fts_match_all(seg_dict, mask, inv))
    /\ UNCHANGED <<tableVars, segVars>>

Call_fts_intersection ==
    /\ built
    /\ op = "none"
    /\ \E segments \in Inventories :
          \E o \in fts_intersection(seg_dict, segments) :
              Record("fts_intersection", segments, o)
    /\ UNCHANGED <<tableVars, segVars>>

Call_fts_to_str ==
    /\ built
    /\ op = "none"
    /\ \E seg \in SmallFeatureSets :
          Record("fts_to_str", seg, fts_to_str(names, seg))
    /\ UNCHANGED <<tableVars, segVars>>

Call_sonority ==
    /\ built
    /\ op = "none"
    /\ \E s \in SegPool : Record("sonority", s, sonority(seg_dict, s))
    /\ UNCHANGED <<tableVars, segVars>>

\* the caller takes the outcome of the call; the next call can be made
Return ==
    /\ op # "none"
    /\ op' = "none"
    /\ arg' = <<>>
    /\ ret' = PyNone
    /\ exc' = "none"
    /\ UNCHANGED <<tableVars, segVars>>

Next ==
    \/ Return
    \/ Call_init
    \/ Call_delete_ties
    \/ Call_fts
    \/ Call_seg_known
    \/ Call_seg_fts
    \/ Call_fts_match
    \/ Call_fts_match_any
    \/ Call_fts_match_all
    \/ Call_fts_intersection
    \/ Call_fts_to_str
    \/ Call_sonority

Spec == Init /\ [][Next]_vars

(***************************************************************************)
(* The segmenter on its own                                                *)
(***************************************************************************)
NextSeg ==
    \/ Call_segment_text
    \/ SegYield
    \/ SegStop

SpecSeg == Init /\ [][NextSeg]_vars

(***************************************************************************)
(* sonority_from_fts on its own: an instance built from a source without   *)
(* data rows, and a feature set drawn from FeatureSets                     *)
(***************************************************************************)
InitSon ==
    /\ built = TRUE
    /\ seg_dict = dict(<<>>)
    /\ names = SpeNames
    /\ nties = 0
    /\ op = "none"
    /\ arg \in FeatureSets
    /\ ret = PyNone
    /\ exc = "none"
    /\ text = <<>>
    /\ pos = 1
    /\ segs = <<>>
    /\ spans = <<>>
    /\ done = TRUE

Call_sonority_from_fts ==
    /\ built
    /\ op = "none"
    /\ Record("sonority_from_fts", arg, Returned(PyInt(sonority_from_fts(arg))))
    /\ UNCHANGED <<tableVars, segVars>>

NextSon == Call_sonority_from_fts

SpecSon == InitSon /\ [][NextSon]_vars

(***************************************************************************)
(* Properties                                                              *)
(***************************************************************************)
Known(sd, segments) == {seg \in Range(segments) : seg \in DOMAIN sd}

\* rank of the first row of a decision table that holds for seg, 0 if no row
\* holds; a row holds when seg has every feature of "has" and none of "lacks"
RowHolds(row, seg) == row.has \subseteq seg /\ row.lacks \cap seg = {}

FirstRow(table, seg) ==
    LET holding == {i \in 1..Len(table) : RowHolds(table[i], seg)}
    IN  IF holding = {} THEN 0 ELSE table[Min(holding)].rank

\* the decision table with +x / -x read as membership of (+,x) / (-,x)
MembershipTable == <<
    [has |-> {<<"-", "cons">>, <<"+", "lo">>}, lacks |-> {}, rank |-> 9],
    [has |-> {<<"-", "cons">>, <<"-", "hi">>}, lacks |-> {<<"+", "lo">>}, rank |-> 8],
    [has |-> {<<"-", "cons">>}, lacks |-> {}, rank |-> 7],
    [has |-> {<<"+", "cons">>, <<"+", "son">>, <<"-", "nas">>}, lacks |-> {}, rank |-> 6],
    [has |-> {<<"+", "cons">>, <<"+", "son">>}, lacks |-> {}, rank |-> 5],
    [has |-> {<<"+", "cons">>, <<"-", "son">>, <<"+", "cont">>, <<"+", "voi">>},
     lacks |-> {}, rank |-> 4],
    [has |-> {<<"+", "cons">>, <<"-", "son">>, <<"+", "cont">>}, lacks |-> {}, rank |-> 3],
    [has |-> {<<"+", "cons">>, <<"-", "son">>, <<"-", "cont">>, <<"+", "voi">>},
     lacks |-> {}, rank |-> 2],
    [has |-> {<<"+", "cons">>, <<"-", "son">>, <<"-", "cont">>}, lacks |-> {}, rank |-> 1] >>

\* the same table with "+cons" read as "(-,cons) is not a member", "-son" as
\* "(+,son) is not a member" and "-cont" as "(+,cont) is not a member"
ComplementTable == <<
    [has |-> {<<"-", "cons">>, <<"+", "lo">>}, lacks |-> {}, rank |-> 9],
    [has |-> {<<"-", "cons">>, <<"-", "hi">>}, lacks |-> {<<"+", "lo">>}, rank |-> 8],
    [has |-> {<<"-", "cons">>}, lacks |-> {}, rank |-> 7],
    [has |-> {<<"+", "son">>, <<"-", "nas">>}, lacks |-> {<<"-", "cons">>}, rank |-> 6],
    [has |-> {<<"+", "son">>}, lacks |-> {<<"-", "cons">>}, rank |-> 5],
    [has |-> {<<"+", "cont">>, <<"+", "voi">>},
     lacks |-> {<<"-", "cons">>, <<"+", "son">>}, rank |-> 4],
    [has |-> {<<"+", "cont">>}, lacks |-> {<<"-", "cons">>, <<"+", "son">>}, rank |-> 3],
    [has |-> {<<"+", "voi">>},
     lacks |-> {<<"-", "cons">>, <<"+", "son">>, <<"+", "cont">>}, rank |-> 2],
    [has |-> {}, lacks |-> {<<"-", "cons">>, <<"+", "son">>, <<"+", "cont">>}, rank |-> 1] >>

\* C1 as stated: for every Feature Set sonority_from_fts returns an integer
\* in 1..9, the rank of the first row of the decision table that holds, a
\* signed feature in a row meaning that the feature is a member of the set.
C1_RankOfFirstMembershipRow ==
    op = "sonority_from_fts" =>
        /\ exc = "none"
        /\ ret.t = "int"
        /\ ret.v \in 1..9
        /\ ret.v = FirstRow(MembershipTable, arg)

\* C1 amended: for every Feature Set sonority_from_fts returns an integer in
\* 1..9, the rank of the first row of the decision table that holds, where
\* -cons, +lo, -hi, +son, -nas, +cont and +voi mean membership, and +cons,
\* -son, -cont mean that (-,cons), (+,son), (+,cont) are not members.
C1_RankOfFirstComplementRow ==
    op = "sonority_from_fts" =>
        /\ exc = "none"
        /\ ret.t = "int"
        /\ ret.v \in 1..9
        /\ ret.v = FirstRow(ComplementTable, arg)

\* a set without any cons feature, ranked 2 (no membership row holds for it)
C1_Witness ==
    /\ op = "sonority_from_fts"
    /\ arg = {<<"+", "voi">>, <<"0", "son">>}
    /\ ret.v = 2

Matches(sd, mask, seg) == seg \in DOMAIN sd /\ mask \subseteq sd[seg]

\* C2: fts_match_any is true iff some segment of the inventory is known and
\* its Feature Set contains the mask; fts_match_all is true iff every segment
\* of the inventory is known and its Feature Set contains the mask; neither
\* raises.
C2_AnyAllOverKnown ==
    /\ op = "fts_match_any" =>
          /\ exc = "none"
          /\ ret.t = "bool"
          /\ ret.v = (\E seg \in Range(arg[2]) : Matches(seg_dict, arg[1], seg))
    /\ op = "fts_match_all" =>
          /\ exc = "none"
          /\ ret.t = "bool"
          /\ ret.v = (\A seg \in Range(arg[2]) : Matches(seg_dict, arg[1], seg))

\* fts_match_all is false only because of an unknown member: the inventory
\* holds a known segment that matches and an unknown one
C2_Witness ==
    /\ op = "fts_match_all"
    /\ Known(seg_dict, arg[2]) # {}
    /\ \A seg \in Known(seg_dict, arg[2]) : Matches(seg_dict, arg[1], seg)
    /\ Known(seg_dict, arg[2]) # Range(arg[2])
    /\ arg[1] # {}
    /\ ret.v = FALSE

\* C3: when the input holds a known segment, fts_intersection returns exactly
\* the features that belong to the Feature Set of every known segment of the
\* input, and the call leaves the table's mapping unchanged.
C3_IntersectionOfKnown ==
    [][(op' = "fts_intersection" /\ Known(seg_dict, arg') # {}) =>
          /\ exc' = "none"
          /\ ret'.t = "set"
          /\ ret'.v = {f \in UNION {seg_dict[seg] : seg \in Known(seg_dict, arg')} :
                          \A seg \in Known(seg_dict, arg') : f \in seg_dict[seg]}
          /\ seg_dict' = seg_dict]_vars

\* two known segments whose Feature Sets share no feature: the empty set is
\* returned
C3_Witness ==
    /\ op = "fts_intersection"
    /\ Cardinality(Known(seg_dict, arg)) = 2
    /\ \A seg \in Known(seg_dict, arg) : seg_dict[seg] # {}
    /\ exc = "none"
    /\ ret.v = {}

\* C4: on an input that is empty or holds no known segment fts_intersection
\* returns the empty Feature Set or raises SegmentError.
C4_DefinedOnNoKnownSegment ==
    (op = "fts_intersection" /\ Known(seg_dict, arg) = {}) =>
        \/ exc = "SegmentError"
        \/ exc = "none" /\ ret.t = "set" /\ ret.v = {}

\* C5: construction with an identifier that is not a named table identifier
\* fails with ConfigurationError and builds no table; construction with a
\* named identifier does not raise that error.
C5_ConfigurationError ==
    op = "__init__" =>
        IF arg \in {"spe+", "panphon", "phoible"}
        THEN exc # "ConfigurationError"
        ELSE exc = "ConfigurationError" /\ ~built

HasTie(k) == \E i \in 1..Len(k) : k[i] = TIE

\* C6: after a delete_ties call no key contains U+0361, and a delete_ties
\* call made after an earlier one leaves the mapping as it was.
C6_DeleteTiesIdempotent ==
    [][op' = "delete_ties" =>
          /\ \A k \in DOMAIN seg_dict' : ~HasTie(k)
          /\ nties >= 1 => seg_dict' = seg_dict]_vars

\* a second call has returned on a table that is not empty
C6_Witness ==
    /\ op = "delete_ties"
    /\ nties = 2
    /\ <<116, 115>> \in DOMAIN seg_dict

\* positions of the text that lie in an emitted segment
Covering(k) == {i \in 1..Len(spans) : spans[i][1] <= k /\ k <= spans[i][2]}

\* t[j+1..k] is a run of combining marks followed by a run of modifier letters
IsRun(t, j, k) ==
    \E m \in j..k :
        /\ \A x \in (j + 1)..m : IsMark(t[x])
        /\ \A x \in (m + 1)..k : IsModifier(t[x])

\* the character at k continues the segment of a base character before it
Continues(t, k) == \E j \in 1..(k - 1) : IsBase(t[j]) /\ IsRun(t, j, k)

\* the emitted segments are substrings of the text, in input order, without
\* overlap, each a base character, combining marks, then modifier letters
SegmentsWellFormed ==
    /\ Len(segs) = Len(spans)
    /\ \A i \in 1..Len(spans) :
          /\ 1 <= spans[i][1] /\ spans[i][1] <= spans[i][2] /\ spans[i][2] <= Len(text)
          /\ segs[i] = SubSeq(text, spans[i][1], spans[i][2])
          /\ IsBase(text[spans[i][1]])
          /\ IsRun(text, spans[i][1], spans[i][2])
          /\ i < Len(spans) => spans[i][2] < spans[i + 1][1]

PresentNames(nms, seg) == {i \in 1..Len(nms) : \E f \in seg : f[2] = nms[i]}

\* C8: the string fts_to_str returns is no longer than the list of feature
\* names, has one character per feature of the input set, and its characters
\* follow the feature-name order with 1 for +, 0 for - and a space for 0.
C8_DisplayStringLength ==
    op = "fts_to_str" =>
        /\ exc = "none"
        /\ ret.t = "str"
        /\ Len(ret.v) <= Len(names)
        /\ Len(ret.v) = Cardinality(arg)
        /\ \A i \in PresentNames(names, arg) :
              LET k == Cardinality({j \in PresentNames(names, arg) : j <= i})
              IN  /\ k <= Len(ret.v)
                  /\ <<"+", names[i]>> \in arg => ret.v[k] = "1"
                  /\ <<"-", names[i]>> \in arg => ret.v[k] = "0"
                  /\ <<"0", names[i]>> \in arg => ret.v[k] = " "

\* a partial set whose features are not adjacent in the header
C8_Witness ==
    /\ op = "fts_to_str"
    /\ arg = {<<"0", "nas">>, <<"+", "son">>}
    /\ ret.v = <<"1", " ">>

SegP == <<112>>
SegA == <<97>>

TableOfExample ==
    /\ built
    /\ DOMAIN seg_dict = {SegP, SegA}
    /\ seg_dict[SegP] = PRow
    /\ seg_dict[SegA] = ARow

\* C9 as stated: with the rows p: -cons,-son,-cont,-voi and a: -cons,+lo,
\* sonority(p) returns 1 and sonority(a) returns 9.
C9_ExampleRanksOneAndNine ==
    (TableOfExample /\ op = "sonority" /\ exc = "none") =>
        /\ arg = SegP => ret.v = 1
        /\ arg = SegA => ret.v = 9

\* C9 amended: with the rows p: -cons,-son,-cont,-voi and a: -cons,+lo,
\* sonority(p) returns 7 and sonority(a) returns 9.
C9_ExampleRanksSevenAndNine ==
    (TableOfExample /\ op = "sonority" /\ arg \in {SegP, SegA}) =>
        /\ exc = "none"
        /\ ret.t = "int"
        /\ arg = SegP => ret.v = 7
        /\ arg = SegA => ret.v = 9

C9_Witness ==
    /\ TableOfExample
    /\ op = "sonority"
    /\ arg = SegP
    /\ ret.v = 7

\* C10: in every table state, for every segment s: seg_known, seg_fts and
\* fts_match never raise; s is unknown iff fts(s) raises SegmentError, iff
\* seg_fts(s) returns None, iff fts_match(mask, s) returns None for every mask
\* (and a boolean for every mask when s is known); when s is known fts(s)
\* and seg_fts(s) return the same Feature Set.
C10_LookupsAgreeOnAbsence ==
    built =>
        \A s \in SegPool :
            LET known == seg_known(seg_dict, s)
                strict == fts(seg_dict, s)
                lenient == seg_fts(seg_dict, s)
            IN  /\ known.exc = "none" /\ known.ret.t = "bool"
                /\ lenient.exc = "none"
                /\ (~known.ret.v) <=> (strict.exc = "SegmentError")
                /\ known.ret.v <=> (strict.exc = "none")
                /\ (~known.ret.v) <=> (lenient.ret.t = "None")
                /\ \A mask \in MaskPool :
                      /\ fts_match(seg_dict, mask, s).exc = "none"
                      /\ (~known.ret.v) <=> (fts_match(seg_dict, mask, s).ret.t = "None")
                      /\ known.ret.v <=> (fts_match(seg_dict, mask, s).ret.t = "bool")
                /\ known.ret.v =>
                      /\ strict.ret.t = "set"
                      /\ lenient.ret.t = "set"
                      /\ strict.ret.v = lenient.ret.v
                /\ (op = "fts" /\ arg = s) => (ret = strict.ret /\ exc = strict.exc)
                /\ (op = "seg_fts" /\ arg = s) => (ret = lenient.ret /\ exc = "none")
                /\ (op = "seg_known" /\ arg = s) => (ret = known.ret /\ exc = "none")

\* after delete_ties the tied key is unknown to the strict lookup and the
\* un-tied form is known
C10_Witness ==
    /\ built
    /\ nties >= 1
    /\ op = "fts"
    /\ arg = <<116, TIE, TIE, 115>>
    /\ exc = "SegmentError"
    /\ <<116, 115>> \in DOMAIN seg_dict

====
